---- MODULE Spec2Model ----
(***************************************************************************)
(* FanoutWriter (src/fanoutwriter.go): one writer, any number of readers   *)
(* that share the writer's buffer and mutex.  Every operation runs under   *)
(* the writer's mutex, so each critical section is one atomic action; the  *)
(* only place a critical section is split is update.Wait() in client.Read, *)
(* which releases the mutex and resumes after a Broadcast.                 *)
(*                                                                         *)
(* Bytes are modelled by value.  Every byte offered to the writer gets a   *)
(* fresh number (the initial buffer holds 1..k, the written bytes follow), *)
(* so a skipped, repeated or reordered byte is visible in what a reader    *)
(* receives.                                                               *)
(*                                                                         *)
(* Each handle is used by one thread: its Read and Close calls do not      *)
(* overlap, and it is not read after its own Close.  Handles, the writer   *)
(* and the creation of readers interleave freely.                          *)
(***************************************************************************)
EXTENDS Integers, Sequences, FiniteSets, TLC

\* ---------------------------------------------------------------- bounds
NumReaders == 2      \* reader handles that can be created
MaxBytes == 3        \* bytes offered to the open writer over a run
MaxWriteLen == 3     \* longest single Write payload
MaxCap == 2          \* largest len(p) passed to Read
MaxLimit == 2        \* the non-zero Limit that is configured
MaxInit == 3         \* longest initial buffer (may exceed the limit)

Readers == 1..NumReaders
Limits == {0, MaxLimit}
InitLens == {0, 1, MaxInit}

VARIABLES
    cfg,      \* fwriter.c: [Buf, Limit, ReadFromStart], fixed at construction
    buf,      \* fwriter.buf
    off,      \* fwriter.off
    clients,  \* fwriter.clients: the registered handles
    closed,   \* fwriter.closed
    locked,   \* the mutex is held by an operation that panicked inside it
    coff,     \* client.off of every handle
    pc,       \* per handle: "unborn", "idle", "waiting" (in Wait), "woken"
    nbytes,   \* bytes offered to the open writer so far (numbers the next payload)
    stream,   \* history: initial bytes, then every byte Write stored
    sent,     \* history, per open handle: the bytes it is due (the retained bytes
              \* it starts at, then every payload Write accepted since)
    got,      \* history, per handle: bytes its Read calls returned
    rclosed,  \* history: handles whose Close was called
    last      \* history: the call that ended (or suspended) in the last step

vars == <<cfg, buf, off, clients, closed, locked, coff, pc,
          nbytes, stream, sent, got, rclosed, last>>

\* ------------------------------------------------------------- helpers
Min2(a, b) == IF a < b THEN a ELSE b

MinOf(S) == CHOOSE x \in S : \A y \in S : x <= y

\* s[k:] of Go, for 0 <= k <= len(s)
Drop(s, k) == SubSeq(s, k + 1, Len(s))

\* s[:k] of Go
Take(s, k) == SubSeq(s, 1, k)

IsPrefix(s, t) == Len(s) <= Len(t) /\ s = SubSeq(t, 1, Len(s))

\* the n bytes numbered first+1 .. first+n
Payload(first, n) == [i \in 1..n |-> first + i]

\* a call and its result; blen is len(p) of a Write and of a Read that reached
\* copy(p, lbuf), 0 for the other calls
Ret(op, r, n, err) == [op |-> op, r |-> r, blen |-> 0, n |-> n, err |-> err]
RetWrite(blen, n, err) == [op |-> "write", r |-> 0, blen |-> blen, n |-> n, err |-> err]
RetRead(r, cap, n, err) == [op |-> "read", r |-> r, blen |-> cap, n |-> n, err |-> err]

\* update.Broadcast(): every handle suspended in Wait becomes runnable
Broadcast == [r \in Readers |-> IF pc[r] = "waiting" THEN "woken" ELSE pc[r]]

\* ---------------------------------------------------------------- Init
NewFanoutWriter(c) ==
    /\ cfg = c
    /\ buf = c.Buf
    /\ off = IF ~c.ReadFromStart THEN Len(c.Buf) ELSE 0
    /\ clients = {}
    /\ closed = FALSE

Configs ==
    {[Buf |-> Payload(0, k), Limit |-> l, ReadFromStart |-> rfs] :
        k \in InitLens, l \in Limits, rfs \in BOOLEAN}

\* the state after construction, for a configuration drawn from C
InitWith(C) ==
    /\ \E c \in C : NewFanoutWriter(c)
    /\ locked = FALSE
    /\ coff = [r \in Readers |-> 0]
    /\ pc = [r \in Readers |-> "unborn"]
    /\ nbytes = 0
    /\ stream = buf
    /\ sent = [r \in Readers |-> <<>>]
    /\ got = [r \in Readers |-> <<>>]
    /\ rclosed = {}
    /\ last = Ret("new", 0, 0, "nil")

Init == InitWith(Configs)

\* the modes of the configuration
TailMode == ~cfg.ReadFromStart
Bounded == cfg.Limit # 0

\* --------------------------------------------------------------- Write
\* Write that tests the closed flag before the length of p
WritePathClosedFirst(blen) ==
    IF closed THEN "closed"
    ELSE IF blen = 0 THEN "empty"
    ELSE IF TailMode /\ clients = {} THEN "discard"
    ELSE "store"

\* Write without the closed check (a write after Close is stored)
WritePathNoClosedCheck(blen) ==
    IF blen = 0 THEN "empty"
    ELSE IF ~cfg.ReadFromStart /\ clients = {} THEN "discard"
    ELSE "store"

\* Write without the zero-readers shortcut (the payload is always stored)
WritePathNoDiscard(blen) ==
    IF blen = 0 THEN "empty"
    ELSE IF closed THEN "closed"
    ELSE "store"

\* The early returns of Write, in the order the code tests them
WritePath(blen) ==
    IF blen = 0 THEN "empty"
    ELSE IF closed THEN "closed"
    ELSE IF ~cfg.ReadFromStart /\ Cardinality(clients) = 0 THEN "discard"
    ELSE "store"

\* The buffer update of Write: the new buf and off for payload p
WriteStore(p) ==
    LET blen == Len(p) IN
    IF cfg.Limit # 0
    THEN IF cfg.Limit > blen
         THEN LET invalidBytes == Len(buf) + blen - cfg.Limit IN
              IF invalidBytes > 0
              THEN [buf |-> Drop(buf, invalidBytes) \o p, off |-> off + invalidBytes]
              ELSE [buf |-> buf \o p, off |-> off]
         ELSE [buf |-> Drop(p, Len(p) - cfg.Limit), off |-> off + Len(buf)]
    ELSE [buf |-> buf \o p, off |-> off]

Write ==
    \E blen \in 0..MaxWriteLen :
        /\ nbytes + blen <= MaxBytes
        /\ LET p == Payload(Len(cfg.Buf) + nbytes, blen)
               path == WritePath(blen)
               w == WriteStore(p)
           IN  /\ (path # "empty" => ~locked)   \* f.Lock() never returns otherwise
               /\ nbytes' = IF path = "closed" THEN nbytes ELSE nbytes + blen
               /\ buf' = IF path = "store" THEN w.buf ELSE buf
               /\ off' = IF path = "store" THEN w.off ELSE off
               /\ pc' = IF path = "store" THEN Broadcast ELSE pc
               /\ stream' = IF path = "store" THEN stream \o p ELSE stream
               /\ sent' = IF path \in {"store", "discard"}
                          THEN [r \in Readers |->
                                   IF pc[r] # "unborn" /\ r \notin rclosed
                                   THEN sent[r] \o p ELSE sent[r]]
                          ELSE sent
               /\ last' = IF path = "closed"
                          THEN RetWrite(blen, 0, "closed")
                          ELSE RetWrite(blen, blen, "nil")
        /\ UNCHANGED <<cfg, clients, closed, locked, coff, got, rclosed>>

\* --------------------------------------------------------- fwriter.Close
Close ==
    /\ ~locked
    /\ closed' = TRUE
    /\ pc' = Broadcast
    /\ last' = Ret("close", 0, 0, "nil")
    /\ UNCHANGED <<cfg, buf, off, clients, locked, coff,
                   nbytes, stream, sent, got, rclosed>>

\* ------------------------------------------------------------ NewReader
\* a reader that starts at the head of the buffer in every mode
NewReaderOffAtHead == off

\* the offset NewReader gives the new handle
NewReaderOff == IF ~cfg.ReadFromStart THEN off + Len(buf) ELSE off

\* NewReader that hands out readers of a closed writer
NewReaderNeverPanics == FALSE

\* the test of NewReader that ends in panic(...)
NewReaderPanics == closed

NewReader ==
    /\ ~locked
    /\ IF NewReaderPanics
       THEN \* panic with the mutex held: no handle is returned
            /\ locked' = TRUE
            /\ last' = Ret("newreader", 0, 0, "panic")
            /\ UNCHANGED <<clients, coff, pc, sent, got>>
       ELSE /\ \E r \in Readers : pc[r] = "unborn"
            /\ LET r == MinOf({x \in Readers : pc[x] = "unborn"}) IN
                /\ coff' = [coff EXCEPT ![r] = NewReaderOff]
                /\ clients' = clients \cup {r}
                /\ pc' = [pc EXCEPT ![r] = "idle"]
                /\ sent' = [sent EXCEPT ![r] = IF cfg.ReadFromStart THEN buf ELSE <<>>]
                /\ got' = [got EXCEPT ![r] = <<>>]
                /\ last' = Ret("newreader", r, 0, "nil")
            /\ UNCHANGED locked
    /\ UNCHANGED <<cfg, buf, off, closed, nbytes, stream, rclosed>>

\* ------------------------------------------------------------ updateOff
\* the jump of the first version of updateOff: the farthest reader, from 0
OffJumpMax(cl, co) ==
    LET diffs == {co[c] - off : c \in cl} \cup {0}
    IN  CHOOSE x \in diffs : \A y \in diffs : y <= x

\* offJump: len(buf), lowered to the smallest c.off - f.off of a registered c
OffJump(cl, co) == MinOf({co[c] - off : c \in cl} \cup {Len(buf)})

\* updateOff that trims in ReadFromStart mode too
updateOffAlways(cl, co) ==
    LET offJump == OffJump(cl, co) IN
    IF offJump < 0 \/ offJump > Len(buf)
    THEN [buf |-> buf, off |-> off, panic |-> TRUE]
    ELSE [buf |-> Drop(buf, offJump), off |-> off + offJump, panic |-> FALSE]

\* updateOff that moves off back by the jump instead of forward
updateOffSubtracts(cl, co) ==
    IF ~cfg.ReadFromStart
    THEN LET offJump == OffJump(cl, co) IN
         IF offJump < 0 \/ offJump > Len(buf)
         THEN [buf |-> buf, off |-> off, panic |-> TRUE]
         ELSE [buf |-> Drop(buf, offJump), off |-> off - offJump, panic |-> FALSE]
    ELSE [buf |-> buf, off |-> off, panic |-> FALSE]

\* updateOff with registry cl and offsets co: the new buf and off, or the panic
\* of f.buf[offJump:] when offJump is out of range
updateOff(cl, co) ==
    IF ~cfg.ReadFromStart
    THEN LET offJump == OffJump(cl, co) IN
         IF offJump < 0 \/ offJump > Len(buf)
         THEN [buf |-> buf, off |-> off, panic |-> TRUE]
         ELSE [buf |-> Drop(buf, offJump), off |-> off + offJump, panic |-> FALSE]
    ELSE [buf |-> buf, off |-> off, panic |-> FALSE]

\* ---------------------------------------------------------- client.Read
\* a fallen-behind handle that stays in the registry
DeregisterForgotten(r) == clients

\* delete(c.fw.clients, c)
Deregister(r) == clients \ {r}

\* One pass of the loop of Read for handle r with len(p) = cap, under the mutex
ReadStep(r, cap) ==
    LET localoff == coff[r] - off IN
    IF localoff > Len(buf) \/ localoff < 0
    THEN \* the handle is behind the buffer: deregistered, ErrFellBehind
         /\ clients' = Deregister(r)
         /\ pc' = [pc EXCEPT ![r] = "idle"]
         /\ last' = Ret("read", r, 0, "fellbehind")
         /\ UNCHANGED <<buf, off, locked, coff, got>>
    ELSE LET lbuf == Drop(buf, localoff) IN
         IF Len(lbuf) = 0
         THEN IF closed
              THEN /\ pc' = [pc EXCEPT ![r] = "idle"]
                   /\ last' = Ret("read", r, 0, "eof")
                   /\ UNCHANGED <<buf, off, clients, locked, coff, got>>
              ELSE \* update.Wait(): the mutex is released, the call is suspended
                   /\ pc' = [pc EXCEPT ![r] = "waiting"]
                   /\ last' = Ret("read", r, 0, "wait")
                   /\ UNCHANGED <<buf, off, clients, locked, coff, got>>
         ELSE LET ncopy == Min2(cap, Len(lbuf))
                  co == [coff EXCEPT ![r] = @ + ncopy]
                  u == IF ncopy > 0 THEN updateOff(clients, co)
                       ELSE [buf |-> buf, off |-> off, panic |-> FALSE]
              IN  /\ coff' = co
                  /\ buf' = u.buf
                  /\ off' = u.off
                  /\ locked' = u.panic
                  /\ pc' = [pc EXCEPT ![r] = "idle"]
                  /\ got' = IF u.panic THEN got
                            ELSE [got EXCEPT ![r] = @ \o Take(lbuf, ncopy)]
                  /\ last' = IF u.panic THEN RetRead(r, cap, 0, "panic")
                             ELSE RetRead(r, cap, ncopy, "nil")
                  /\ UNCHANGED clients

\* a Read call by the handle's thread, on a handle it has not closed
Read(r) ==
    /\ ~locked
    /\ pc[r] = "idle"
    /\ r \notin rclosed
    /\ \E cap \in 0..MaxCap : ReadStep(r, cap)
    /\ UNCHANGED <<cfg, closed, nbytes, stream, sent, rclosed>>

\* a suspended Read that was woken reacquires the mutex and loops.  len(p) of
\* the suspended call has had no effect yet, so it is drawn here.
ReadResume(r) ==
    /\ ~locked
    /\ pc[r] = "woken"
    /\ \E cap \in 0..MaxCap : ReadStep(r, cap)
    /\ UNCHANGED <<cfg, closed, nbytes, stream, sent, rclosed>>

\* --------------------------------------------------------- client.Close
\* Close that trims whatever the handle's offset is
ClientCloseTrimsAlways(r) == TRUE

\* the test that guards updateOff in client.Close
ClientCloseTrims(r) == off = coff[r]

\* a Close call by the handle's thread (not while it is inside Read); it may
\* be repeated
ClientClose(r) ==
    /\ ~locked
    /\ pc[r] = "idle"
    /\ LET cl == Deregister(r)
           u == IF ClientCloseTrims(r) THEN updateOff(cl, coff)
                ELSE [buf |-> buf, off |-> off, panic |-> FALSE]
       IN  /\ clients' = cl
           /\ buf' = u.buf
           /\ off' = u.off
           /\ locked' = u.panic
           /\ rclosed' = rclosed \cup {r}
           /\ sent' = [sent EXCEPT ![r] = <<>>]   \* the history of a closed
           /\ got' = [got EXCEPT ![r] = <<>>]     \* handle is dropped
           /\ last' = IF u.panic THEN Ret("rclose", r, 0, "panic")
                      ELSE Ret("rclose", r, 0, "nil")
    /\ UNCHANGED <<cfg, closed, coff, pc, nbytes, stream>>

\* --------------------------------------------------------------- Next
Next ==
    \/ Write
    \/ Close
    \/ NewReader
    \/ \E r \in Readers : Read(r)
    \/ \E r \in Readers : ReadResume(r)
    \/ \E r \in Readers : ClientClose(r)

Spec == Init /\ [][Next]_vars

\* the configurations of each mode, and the specification of each
UnboundedTailConfigs ==
    {c \in Configs : c.Limit = 0 /\ ~c.ReadFromStart /\ c.Buf = <<>>}
BoundedTailConfigs == {c \in Configs : c.Limit # 0 /\ ~c.ReadFromStart}
TailConfigs == {c \in Configs : ~c.ReadFromStart}
UnboundedRFSConfigs == {c \in Configs : c.Limit = 0 /\ c.ReadFromStart}
BoundedRFSConfigs == {c \in Configs : c.Limit # 0 /\ c.ReadFromStart}

SpecUnboundedTail == InitWith(UnboundedTailConfigs) /\ [][Next]_vars
SpecBoundedTail == InitWith(BoundedTailConfigs) /\ [][Next]_vars
SpecTail == InitWith(TailConfigs) /\ [][Next]_vars
SpecUnboundedRFS == InitWith(UnboundedRFSConfigs) /\ [][Next]_vars
SpecBoundedRFS == InitWith(BoundedRFSConfigs) /\ [][Next]_vars

\* ----------------------------------------------------------- properties
\* a handle that was created and whose Close was not called
Open(r) == pc[r] # "unborn" /\ r \notin rclosed

\* the bytes of the buffer that handle r has not consumed
InWindow(r) == coff[r] >= off /\ coff[r] - off <= Len(buf)
Unread(r) == IF InWindow(r) THEN Drop(buf, coff[r] - off) ELSE <<>>

\* C1: in unbounded tail mode, what an open reader has received is always a
\* prefix of the concatenation of the writes accepted since it was created, in
\* write order: nothing written before its creation, nothing skipped, repeated
\* or reordered.
C1_ReaderReceivesLaterWritesInOrder ==
    \A r \in Readers : Open(r) => IsPrefix(got[r], sent[r])

\* a reader created after the first write has received, in more than one
\* chunk size, everything written since its creation
C1_Witness ==
    \E r \in Readers :
        /\ Open(r)
        /\ Len(got[r]) >= 2
        /\ got[r] = sent[r]
        /\ got[r][1] > 1
        /\ \E q \in Readers \ {r} : pc[q] # "unborn"

\* C2: in unbounded tail mode, two open readers created at the same stream
\* position see the same byte sequence: each still finds in the buffer every
\* byte it has not consumed, and what each has received followed by what it
\* has yet to read is the same sequence for both.
C2_SamePositionSameBytes ==
    \A r1, r2 \in Readers :
        (Open(r1) /\ Open(r2) /\ sent[r1] = sent[r2]) =>
            /\ InWindow(r1)
            /\ got[r1] \o Unread(r1) = sent[r1]
            /\ got[r1] \o Unread(r1) = got[r2] \o Unread(r2)
            /\ (IsPrefix(got[r1], got[r2]) \/ IsPrefix(got[r2], got[r1]))

\* two readers created together, one ahead of the other after reads of
\* different chunk sizes
C2_Witness ==
    /\ Open(1) /\ Open(2)
    /\ sent[1] = sent[2]
    /\ Len(got[1]) = 1
    /\ Len(got[2]) >= 2
    /\ Len(sent[1]) >= 3

\* a Write of blen bytes would move off past the offset of a registered reader
WouldStrand(blen) ==
    /\ blen > 0
    /\ \E c \in clients : WriteStore(Payload(0, blen)).off > coff[c]

\* C3: in bounded tail mode, a write that would force base_offset past the
\* offset of a registered reader is rejected with WouldFallBehindError, reports
\* zero bytes accepted and leaves buffer, base_offset and every reader offset
\* unchanged.
C3_StrandingWriteRejected ==
    [][(/\ last'.op = "write"
        /\ ~closed /\ TailMode /\ Bounded
        /\ WouldStrand(nbytes' - nbytes))
       => (/\ last'.err = "wouldfallbehind"
           /\ last'.n = 0
           /\ UNCHANGED <<buf, off, coff>>)]_vars

\* a registered reader whose consumed position is more than Limit bytes behind
\* the end of the last accepted write: bytes it has not consumed were evicted
Evicted(r) == r \in clients /\ Len(sent[r]) - Len(got[r]) > cfg.Limit

\* C4: in bounded tail mode, the next read of a registered reader that has not
\* consumed some evicted byte returns FellBehindError; it never returns later
\* bytes with success, whatever the size of the writes.  (A read into an empty
\* destination, which returns no byte, is left aside.)
C4_EvictedReaderFellBehind ==
    [][\A r \in Readers :
        (/\ TailMode /\ Bounded
         /\ Evicted(r)
         /\ last'.op = "read" /\ last'.r = r
         /\ ~(last'.err = "nil" /\ last'.n = 0))
        => last'.err = "fellbehind"]_vars

\* C5: after the writer's Close, a read of a registered reader never blocks: it
\* returns, in order, the bytes written before the close that the reader has
\* not consumed, and once these are drained it returns zero bytes with EOF,
\* again and again, without changing any state.
C5_CloseDrainsThenEOF ==
    [][\A r \in Readers :
        (/\ closed /\ r \in clients
         /\ last'.op = "read" /\ last'.r = r)
        => IF got[r] = sent[r]
           THEN /\ last'.err = "eof" /\ last'.n = 0
                /\ UNCHANGED <<buf, off, clients, closed, locked, coff, got>>
           ELSE /\ last'.err = "nil"
                /\ Len(got'[r]) = Len(got[r]) + last'.n
                /\ IsPrefix(got'[r], sent[r])]_vars

\* C6: when at least one reader was created and every created reader has been
\* closed (the registry is empty), the buffer is empty in tail mode, for any
\* limit and any initial bytes, and holds at most Limit bytes in bounded
\* ReadFromStart mode.
C6_AllClosedReleasesBuffer ==
    (/\ ~locked
     /\ \E r \in Readers : pc[r] # "unborn"
     /\ \A r \in Readers : pc[r] # "unborn" => r \in rclosed
     /\ clients = {})
    => IF TailMode THEN Len(buf) = 0
       ELSE (Bounded => Len(buf) <= cfg.Limit)

\* C7: once the writer is closed it stays closed, and every later write of a
\* non-empty payload returns ErrClosedPipe with zero bytes accepted and leaves
\* the buffer, off, the registry and every reader offset unchanged.
C7_WriteAfterCloseRejected ==
    [][closed =>
        /\ closed'
        /\ (last'.op = "write" /\ ~(last'.err = "nil" /\ last'.n = 0))
           => (/\ last'.err = "closed"
               /\ last'.n = 0
               /\ UNCHANGED <<buf, off, clients, coff>>)]_vars

\* a non-empty write was rejected after the close, with a registered reader
\* that still has unread bytes in the buffer
C7_Witness ==
    /\ closed
    /\ last.op = "write" /\ last.err = "closed"
    /\ \E r \in clients : Len(Unread(r)) > 0

\* the last k bytes of s, all of s when it is shorter
LastBytes(s, k) == IF Len(s) <= k THEN s ELSE Drop(s, Len(s) - k)

\* C8: in bounded ReadFromStart mode every write to the open writer is accepted
\* in full, the buffer is always exactly the last min(Limit, T) bytes of the
\* stream (the initial bytes followed by all written bytes, T its length), so
\* it never exceeds Limit, and a new reader starts at the first retained byte.
C8_RFSBufferIsStreamTail ==
    (cfg.ReadFromStart /\ Bounded) =>
        /\ stream = Payload(0, Len(cfg.Buf) + nbytes)
        /\ buf = LastBytes(stream, cfg.Limit)
        /\ Len(buf) <= cfg.Limit
        /\ last.op = "write" => last.err \in {"nil", "closed"}
        /\ (last.op = "newreader" /\ last.err = "nil") =>
               (coff[last.r] = off /\ sent[last.r] = buf)

\* C9: in unbounded ReadFromStart mode the buffer never shrinks and off never
\* moves: the buffer is always the initial bytes followed by every written
\* byte, and every open reader, whenever it was created, has received a prefix
\* of exactly that sequence and still finds the rest in the buffer.
C9_UnboundedRFSKeepsEverything ==
    (cfg.ReadFromStart /\ ~Bounded) =>
        /\ off = 0
        /\ buf = Payload(0, Len(cfg.Buf) + nbytes)
        /\ \A r \in Readers : Open(r) =>
               /\ InWindow(r)
               /\ got[r] \o Unread(r) = Payload(0, Len(cfg.Buf) + nbytes)

\* a reader created after a write has received the initial bytes and all the
\* written ones, while the other reader has read and was closed
C9_Witness ==
    /\ cfg.ReadFromStart /\ ~Bounded
    /\ Len(cfg.Buf) = 1
    /\ Open(2) /\ 1 \in rclosed
    /\ coff[1] > 0
    /\ nbytes >= 2
    /\ got[2] = buf
    /\ Len(buf) >= 3

\* C10: in tail mode a write to the open writer while no reader is registered
\* succeeds for any payload size and any limit, reports the whole payload as
\* accepted and leaves buf and off unchanged.
C10_WriteWithoutReadersDiscards ==
    [][(/\ TailMode /\ ~closed
        /\ clients = {}
        /\ last'.op = "write")
       => (/\ last'.err = "nil"
           /\ last'.n = nbytes' - nbytes
           /\ UNCHANGED <<buf, off>>)]_vars

\* with a limit and after a reader came and went, a payload longer than the
\* limit was accepted and dropped
C10_Witness ==
    /\ TailMode /\ Bounded /\ ~closed
    /\ clients = {} /\ rclosed # {}
    /\ last.op = "write" /\ last.err = "nil"
    /\ last.n > cfg.Limit
    /\ Len(buf) < last.n

\* ------------------------------------------------------------ fair runs
\* A goroutine woken by Broadcast is scheduled again by the Go runtime:
\* Cond.Wait returns once c.L can be taken (fanoutwriter.go:216-217).
SpecFair == Init /\ [][Next]_vars /\ \A r \in Readers : WF_vars(ReadResume(r))

\* a handle whose read returned ErrFellBehind: the only way out of the
\* registry other than Close
Fell(r) == Open(r) /\ r \notin clients

\* C11: in read-from-start mode a read never returns ErrFellBehind and never
\* removes its handle from the registry.
C11_RFSReadNeverFellBehind ==
    [][(cfg.ReadFromStart /\ last'.op = "read")
       => (/\ last'.err # "fellbehind"
           /\ (last'.r \in clients => last'.r \in clients'))]_vars

\* C12: under fair scheduling a reader woken from its wait by a write that
\* appended bytes or by the writer's Close returns from Read.
C12_WokenReaderReturns ==
    \A r \in Readers : (pc[r] = "woken") ~> (pc[r] = "idle")

\* C13: a Write of an empty p returns (0, nil) in every state of the writer,
\* closed or with the mutex held included, and changes nothing: buf, off,
\* closed, the registry, the reader offsets and what readers will be
\* delivered stay as they were.
C13_EmptyWriteIsNoOp ==
    [][(last'.op = "write" /\ last'.blen = 0)
       => (/\ last'.n = 0 /\ last'.err = "nil"
           /\ UNCHANGED <<cfg, buf, off, clients, closed, locked, coff, pc,
                          nbytes, stream, sent, got, rclosed>>)]_vars

\* an empty write returned nil on a closed writer that still holds bytes and
\* has a registered reader
C13_Witness ==
    /\ last.op = "write" /\ last.blen = 0 /\ last.err = "nil"
    /\ closed /\ buf # <<>> /\ clients # {}

\* C14: NewReader on a closed writer returns no handle: it panics and the
\* registry, the offsets and the handles are as before.
C14_NewReaderAfterClosePanics ==
    [][(closed /\ last'.op = "newreader")
       => (/\ last'.err = "panic"
           /\ UNCHANGED <<clients, coff, pc, sent, got, rclosed>>)]_vars

\* NewReader panicked on a closed writer that has a registered reader and a
\* free handle
C14_Witness ==
    /\ closed /\ last.op = "newreader" /\ last.err = "panic"
    /\ clients # {}
    /\ \E r \in Readers : pc[r] = "unborn"

\* C15: every registered reader's offset lies in [off, off + len(buf)] in
\* read-from-start mode, whatever the limit, and in unbounded tail mode.
C15_RegisteredOffsetInWindow ==
    \A r \in clients : (cfg.ReadFromStart \/ ~Bounded) => InWindow(r)

\* C16: a read that returns ErrFellBehind takes its handle, and nothing else,
\* out of the registry and leaves buf, off, every offset and the other
\* readers as they were; every later read on that handle returns
\* ErrFellBehind again.
C16_FellBehindIsTerminal ==
    [][(last'.op = "read")
       => (/\ (last'.err = "fellbehind"
               => /\ last'.r \notin clients'
                  /\ clients \ {last'.r} = clients'
                  /\ UNCHANGED <<buf, off, coff, closed, locked>>
                  /\ \A q \in Readers \ {last'.r} : pc'[q] = pc[q])
           /\ (Fell(last'.r) => last'.err = "fellbehind"))]_vars

\* handle 1 has fallen behind and is out of the registry, handle 2 is
\* registered, inside the window and has bytes to read
C16_Witness ==
    /\ last = Ret("read", 1, 0, "fellbehind")
    /\ Fell(1)
    /\ 2 \in clients /\ InWindow(2) /\ Unread(2) # <<>>

\* C17: the trimming after a read that copied bytes and after a reader's
\* Close removes between 0 and len(buf) bytes from the head of buf, and no
\* Read or reader Close ends in the out-of-range panic.
C17_TrimWithinBuffer ==
    [][(last'.op \in {"read", "rclose"})
       => (/\ last'.err # "panic"
           /\ off' - off \in 0..Len(buf)
           /\ buf' = Drop(buf, off' - off))]_vars

\* C18: no operation lowers off.
C18_OffNeverDecreases == [][off' >= off]_vars

\* off was advanced by a limited Write, which stranded handle 1, and then by
\* the trimming after a read of handle 2
C18_Witness ==
    /\ TailMode /\ Bounded /\ cfg.Buf = <<>>
    /\ Fell(1)
    /\ last.op = "read" /\ last.r = 2 /\ last.n = 1 /\ last.err = "nil"
    /\ off = 2 /\ buf = <<3>>

\* C19: buf is the segment [off, off + len(buf)) of the stream (the initial
\* bytes followed by the stored writes) and off + len(buf) is its length.
C19_OffIsStreamPosition ==
    /\ off + Len(buf) = Len(stream)
    /\ buf = SubSeq(stream, off + 1, off + Len(buf))

\* C20: a reader's Close takes that handle, and no other, out of the
\* registry and changes no offset; a Close of an already closed handle
\* returns nil and leaves buf, off, the registry and the offsets unchanged.
C20_SecondCloseIsNoOp ==
    [][(last'.op = "rclose")
       => (/\ clients' = clients \ {last'.r}
           /\ coff' = coff
           /\ (last'.r \in rclosed
               => /\ last'.err = "nil"
                  /\ UNCHANGED <<buf, off, clients, locked>>))]_vars

\* C21: the offset of an existing handle changes only in a step that is that
\* handle's own Read returning nil, and then it grows by exactly the number
\* of bytes returned, which is at most len(p) and at most the bytes that were
\* available to it; every other step leaves it as it was, so it never
\* decreases.
C21_OffsetMovesOnlyByOwnRead ==
    [][/\ \A r \in Readers :
              pc[r] # "unborn" =>
                  /\ coff'[r] >= coff[r]
                  /\ (coff'[r] # coff[r]
                      => /\ last'.op = "read" /\ last'.r = r
                         /\ last'.err = "nil"
                         /\ coff'[r] = coff[r] + last'.n
                         /\ last'.n <= last'.blen
                         /\ last'.n <= Len(Unread(r)))
       /\ (last'.op = "read" /\ last'.err = "nil"
           => coff'[last'.r] = coff[last'.r] + last'.n)]_vars

\* C22: no operation ends with the writer's mutex still held: after any
\* Write, Close, NewReader, Read or reader Close has returned or panicked the
\* mutex is free, so the calls of other goroutines can take it.
C22_MutexFreeAfterEveryOperation == ~locked

====
